---------------------------- MODULE Spec2Model ----------------------------
(***************************************************************************)
(* Resonance backend scripts.                                              *)
(*                                                                         *)
(*   backend/scripts/upload.py        the Sync pipeline: walk the preset   *)
(*                                    tree, match a preview, upload both   *)
(*                                    blobs, upsert the catalog row        *)
(*   backend/scripts/modify_preset.py the patch engine and its CLI         *)
(*                                                                         *)
(* Relative paths are sequences of segments (Path.parts).  String          *)
(* functions the code applies to segments (lower, stem, comparison) are    *)
(* tabulated over the finite universe of segments the model draws from.    *)
(* uuid5 is modelled as a collision-free name-based identifier: the        *)
(* namespace and the name are kept in the identifier's text.               *)
(***************************************************************************)
EXTENDS Integers, Sequences, FiniteSets, Bags, TLC

VARIABLES
    presetsDirExists,   \* PRESETS_DIR.exists()
    previewsDirExists,  \* PREVIEWS_DIR.exists()
    presetTree,         \* relative paths of the *.vital files under PRESETS_DIR
    previewTree,        \* relative paths of the files under PREVIEWS_DIR
    overlap,            \* whether a run of main() may start while another is running
    overlapped,         \* a run of main() has started while another was running
    presetsStore,       \* bucket "presets": a bag of objects
    previewsStore,      \* bucket "previews": a bag of objects
    catalog,            \* table "presets": a bag of rows
    pc,                 \* per run of main(): where it stands
    vital_files,        \* per run: sorted(PRESETS_DIR.rglob("*.vital"))
    idx,                \* per run: position of the for loop in vital_files
    missing_wavs,       \* per run: the counter of line 110
    wav_path,           \* per run: find_matching_wav's result for the current asset
    out,                \* per run: the lines printed
    raisedAt,           \* per run: loop position at which a remote call raised (0: none)
    argv,               \* patch CLI: sys.argv[1:]
    fs,                 \* patch CLI: path -> content of the file there
    fs0,                \* patch CLI: the files as they were when the script started
    cpc,                \* patch CLI: where the script stands
    patch_dict,         \* patch CLI: json.load of the patch file
    vital_data,         \* patch CLI: the document being patched
    exitCode,           \* patch CLI: process exit status (-1 while running)
    stdout,             \* patch CLI: lines printed
    outOpened           \* patch CLI: open(output_path, 'w') has been executed

disk == <<presetsDirExists, previewsDirExists, presetTree, previewTree, overlap>>
syncVars == <<disk, overlapped, presetsStore, previewsStore, catalog, pc, vital_files, idx,
              missing_wavs, wav_path, out, raisedAt>>
patchVars == <<argv, fs, fs0, cpc, patch_dict, vital_data, exitCode, stdout, outOpened>>
vars == <<syncVars, patchVars>>

---------------------------------------------------------------------------
(* Bounds of the model *)

MaxRuns == 2          \* runs of main() in one behaviour
MaxPresetFiles == 3   \* preset files in the tree
MaxPreviewFiles == 2  \* preview files in the tree

Runs == 1..MaxRuns

---------------------------------------------------------------------------
(* Segments and paths *)

PRESETS_BUCKET == "presets"
PREVIEWS_BUCKET == "previews"
NAMESPACE == "NAMESPACE_URL"

None == <<>>   \* a relative path always has at least its file name

PresetUniverse ==
    { <<"Jek's Vital Presets", "PackA", "Presets", "Lead.vital">>,
      <<"JEKS VITAL PRESETS", "presets", "PackA", "Lead.vital">>,
      <<"PackB", "Presets", "Bass.vital">>,
      <<"PackC", "Solo.vital">> }

PreviewUniverse ==
    { <<"Jek's Vital Presets", "PackA", "Presets", "Lead.wav">>,
      <<"Jek's Vital Presets", "PackA", "Lead.wav">>,
      <<"PackA", "Presets", "Lead.wav">>,
      <<"PackA", "Lead.wav">>,
      <<"PackB", "Bass.wav">> }

\* str.lower() on the segments of the universe
lower(s) ==
    CASE s = "Jek's Vital Presets" -> "jek's vital presets"
      [] s = "JEKS VITAL PRESETS" -> "jeks vital presets"
      [] s = "Presets" -> "presets"
      [] s = "presets" -> "presets"
      [] s = "PackA" -> "packa"
      [] s = "PackB" -> "packb"
      [] s = "PackC" -> "packc"
      [] s = "Lead.vital" -> "lead.vital"
      [] s = "Bass.vital" -> "bass.vital"
      [] s = "Solo.vital" -> "solo.vital"
      [] OTHER -> s

\* PurePath.stem of a file name of the universe
stem(name) ==
    CASE name = "Lead.vital" -> "Lead"
      [] name = "Bass.vital" -> "Bass"
      [] name = "Solo.vital" -> "Solo"
      [] name = "Lead.wav" -> "Lead"
      [] name = "Bass.wav" -> "Bass"
      [] OTHER -> name

\* Code-point order of the segments of the universe (str.__lt__)
SegRank(s) ==
    CASE s = "Bass.vital" -> 1
      [] s = "JEKS VITAL PRESETS" -> 2
      [] s = "Jek's Vital Presets" -> 3
      [] s = "Lead.vital" -> 4
      [] s = "PackA" -> 5
      [] s = "PackB" -> 6
      [] s = "PackC" -> 7
      [] s = "Presets" -> 8
      [] s = "Solo.vital" -> 9
      [] s = "presets" -> 10
      [] OTHER -> 11

Min(a, b) == IF a < b THEN a ELSE b

\* Path.__lt__: lexicographic on the parts
PathLess(p, q) ==
    \E k \in 1..(Min(Len(p), Len(q)) + 1) :
        /\ \A j \in 1..(k - 1) : p[j] = q[j]
        /\ \/ k > Len(p) /\ k <= Len(q)
           \/ k <= Len(p) /\ k <= Len(q) /\ SegRank(p[k]) < SegRank(q[k])

RECURSIVE sorted(_)
sorted(S) ==
    IF S = {} THEN <<>>
    ELSE LET m == CHOOSE p \in S : \A q \in S \ {p} : PathLess(p, q)
         IN <<m>> \o sorted(S \ {m})

\* Path.as_posix(): the parts joined with "/"
RECURSIVE as_posix(_)
as_posix(parts) ==
    IF Len(parts) = 1 THEN parts[1]
    ELSE parts[1] \o "/" \o as_posix(Tail(parts))

\* uuid.uuid5(namespace, name), as text
uuid5(namespace, name) == "uuid5(" \o namespace \o "," \o name \o ")"

\* Path.with_suffix
with_suffix(parts, suffix) ==
    [parts EXCEPT ![Len(parts)] = stem(@) \o suffix]

\* Path.exists() of a path under PREVIEWS_DIR
exists(rel) == previewsDirExists /\ rel \in previewTree

\* Path.read_bytes(): the content of the file at rel under root
read_bytes(root, rel) == [root |-> root, rel |-> rel]

---------------------------------------------------------------------------
(* The remote stores (supabase storage and table) *)

\* The bag b without any copy of the elements of S
BagWithout(b, S) == [e \in (DOMAIN b) \ S |-> b[e]]

\* storage.from_(bucket).upload(path=key, file=data, {"content-type", "upsert": "true"}):
\* the object at key is replaced
StorageUpload(store, key, data, content_type) ==
    BagWithout(store, {o \in DOMAIN store : o.key = key})
        (+) SetToBag({[key |-> key, data |-> data, content_type |-> content_type]})

\* table("presets").insert(row): no conflict handling
TableInsert(table, row) == table (+) SetToBag({row})

\* table("presets").upsert(row).execute(): the row with the same primary key is replaced
TableUpsert(table, row) ==
    BagWithout(table, {x \in DOMAIN table : x.id = row.id}) (+) SetToBag({row})

\* upload_file: the new content of the bucket
upload_file(store, key, root, rel, content_type) ==
    StorageUpload(store, key, read_bytes(root, rel), content_type)

\* upsert_preset_row: the new content of the table
upsert_preset_row(table, preset_id, title, preset_key, preview_key) ==
    TableUpsert(table, [id |-> preset_id,
                        title |-> title,
                        visibility |-> "public",
                        preset_object_key |-> preset_key,
                        preview_object_key |-> preview_key,
                        source |-> "seed"])

---------------------------------------------------------------------------
(* find_matching_wav and stable_id_for *)

DropPresets(parts) == SelectSeq(parts, LAMBDA p : lower(p) # "presets")

\* the first segment compared without lowering it
IsRootAliasCaseSensitive(parts) ==
    Len(parts) > 0 /\ parts[1] \in {"jek's vital presets", "jeks vital presets"}

\* line 80: parts and parts[0].lower() in {...}
IsRootAlias(parts) ==
    Len(parts) > 0 /\ lower(parts[1]) \in {"jek's vital presets", "jeks vital presets"}

candidate(parts_list) == with_suffix(parts_list, ".wav")

\* the list built by lines 71-83
variants(parts) ==
    <<parts, DropPresets(parts)>>
        \o (IF IsRootAlias(parts)
            THEN <<Tail(parts), DropPresets(Tail(parts))>>
            ELSE <<>>)

\* the loop of lines 85-90 from position k of the list vs
RECURSIVE FirstExisting(_, _)
FirstExisting(vs, k) ==
    IF k > Len(vs) THEN None
    ELSE IF exists(candidate(vs[k])) THEN candidate(vs[k])
    ELSE FirstExisting(vs, k + 1)

find_matching_wav(rel) == FirstExisting(variants(rel), 1)

\* an identifier from the file name alone
stable_id_for_name(rel) == uuid5(NAMESPACE, rel[Len(rel)])

stable_id_for(rel) == uuid5(NAMESPACE, as_posix(rel))

preset_key_of(preset_id) == preset_id \o ".vital"
preview_key_of(preset_id) == preset_id \o ".wav"

---------------------------------------------------------------------------
(* modify_preset.py: JSON values, files, apply_patch_to_vital and the CLI *)

\* A JSON value: a number, a list or an object (a function from keys to JSON values)
NoMap == [k \in {} |-> 0]
Num(n) == [kind |-> "num", num |-> n, map |-> NoMap]
List(n) == [kind |-> "list", num |-> n, map |-> NoMap]
Obj(f) == [kind |-> "map", num |-> 0, map |-> f]

\* isinstance(v, dict)
IsDict(v) == v.kind = "map"

\* A file: absent, text that json.load rejects, or the JSON text of a value
Absent == [kind |-> "absent", val |-> Num(0)]
Garbage == [kind |-> "garbage", val |-> Num(0)]
JsonText(v) == [kind |-> "json", val |-> v]

\* os.path.exists
path_exists(files, path) == files[path].kind # "absent"

\* open(path, 'r') and json.load succeed
Loadable(files, path) == files[path].kind = "json"

\* json.load(f) of a loadable file
json_load(files, path) == files[path].val

\* json.dump(value, f, indent=2): the text written
json_dump(v) == JsonText(v)

PatchPaths == {"a.vital", "b.json", "c.vital"}

ArgvUniverse ==
    [1..3 -> PatchPaths]
        \cup {<<>>, <<"a.vital">>, <<"a.vital", "b.json">>,
              <<"a.vital", "b.json", "c.vital", "c.vital">>}

DocUniverse ==
    { Obj(("settings" :> Obj(("a" :> Num(1)) @@ ("b" :> Num(2))))
              @@ ("meta" :> Obj("x" :> Num(1)))),
      Obj("meta" :> Obj("x" :> Num(1))),
      Obj(("settings" :> Num(7)) @@ ("meta" :> Obj("x" :> Num(1)))),
      Obj(("b" :> Num(5)) @@ ("c" :> Num(9))),
      Obj("k" :> Num(1)),
      List(1) }

ContentUniverse == {Absent, Garbage} \cup {JsonText(d) : d \in DocUniverse}

\* lines 9-10 without the test: 'settings' is always reset
ensure_settings_always(doc) ==
    Obj([k \in DOMAIN doc.map \cup {"settings"} |->
            IF k = "settings" THEN Obj(NoMap) ELSE doc.map[k]])

\* lines 9-10 on a dict: 'settings' becomes {} unless it is there and is a dict
ensure_settings(doc) ==
    IF "settings" \notin DOMAIN doc.map \/ ~IsDict(doc.map["settings"])
    THEN Obj([k \in DOMAIN doc.map \cup {"settings"} |->
                 IF k = "settings" THEN Obj(NoMap) ELSE doc.map[k]])
    ELSE doc

\* d[key] = value on a dict
SetItem(d, key, value) ==
    Obj([k \in DOMAIN d.map \cup {key} |-> IF k = key THEN value ELSE d.map[k]])

\* the loop of lines 12-13 assigning into the document itself
RECURSIVE apply_items_top(_, _, _)
apply_items_top(doc, patch, keys) ==
    IF keys = {} THEN doc
    ELSE LET key == CHOOSE k \in keys : TRUE
         IN apply_items_top(SetItem(doc, key, patch.map[key]), patch, keys \ {key})

\* the loop of lines 12-13 over the items still to assign
RECURSIVE apply_items(_, _, _)
apply_items(doc, patch, keys) ==
    IF keys = {} THEN doc
    ELSE LET key == CHOOSE k \in keys : TRUE
         IN apply_items(
                SetItem(doc, "settings", SetItem(doc.map["settings"], key, patch.map[key])),
                patch, keys \ {key})

PatchExit(code) ==
    /\ cpc' = "exit"
    /\ exitCode' = code

\* lines 18-23
CheckArgs ==
    /\ cpc = "argc"
    /\ IF Len(argv) + 1 # 4
       THEN /\ stdout' = Append(stdout, <<"Usage", "">>)
            /\ PatchExit(1)
       ELSE /\ cpc' = "check_original"
            /\ UNCHANGED <<stdout, exitCode>>
    /\ UNCHANGED <<argv, fs, fs0, patch_dict, vital_data, outOpened>>
    /\ UNCHANGED syncVars

\* lines 24-26 with the exit status of success
CheckOriginalExitsZero ==
    /\ cpc = "check_original"
    /\ IF ~path_exists(fs, argv[1])
       THEN /\ stdout' = Append(stdout, <<"Original vital file not found", argv[1]>>)
            /\ PatchExit(0)
       ELSE /\ cpc' = "check_patch"
            /\ UNCHANGED <<stdout, exitCode>>
    /\ UNCHANGED <<argv, fs, fs0, patch_dict, vital_data, outOpened>>
    /\ UNCHANGED syncVars

\* lines 24-26
CheckOriginal ==
    /\ cpc = "check_original"
    /\ IF ~path_exists(fs, argv[1])
       THEN /\ stdout' = Append(stdout, <<"Original vital file not found", argv[1]>>)
            /\ PatchExit(1)
       ELSE /\ cpc' = "check_patch"
            /\ UNCHANGED <<stdout, exitCode>>
    /\ UNCHANGED <<argv, fs, fs0, patch_dict, vital_data, outOpened>>
    /\ UNCHANGED syncVars

\* lines 27-29
CheckPatch ==
    /\ cpc = "check_patch"
    /\ IF ~path_exists(fs, argv[2])
       THEN /\ stdout' = Append(stdout, <<"Patch JSON file not found", argv[2]>>)
            /\ PatchExit(1)
       ELSE /\ cpc' = "load_patch"
            /\ UNCHANGED <<stdout, exitCode>>
    /\ UNCHANGED <<argv, fs, fs0, patch_dict, vital_data, outOpened>>
    /\ UNCHANGED syncVars

\* lines 30-31: an exception of open or json.load ends the script with status 1
LoadPatch ==
    /\ cpc = "load_patch"
    /\ IF Loadable(fs, argv[2])
       THEN /\ patch_dict' = json_load(fs, argv[2])
            /\ cpc' = "load_original"
            /\ UNCHANGED exitCode
       ELSE /\ PatchExit(1)
            /\ UNCHANGED patch_dict
    /\ UNCHANGED <<argv, fs, fs0, vital_data, stdout, outOpened>>
    /\ UNCHANGED syncVars

\* lines 6-7 after the output file has been opened for writing
LoadOriginalAfterOpen ==
    /\ cpc = "load_original"
    /\ outOpened' = TRUE
    /\ fs' = [fs EXCEPT ![argv[3]] = Garbage]
    /\ IF Loadable(fs', argv[1])
       THEN /\ vital_data' = json_load(fs', argv[1])
            /\ cpc' = "ensure_settings"
            /\ UNCHANGED exitCode
       ELSE /\ PatchExit(1)
            /\ UNCHANGED vital_data
    /\ UNCHANGED <<argv, fs0, patch_dict, stdout>>
    /\ UNCHANGED syncVars

\* lines 6-7
LoadOriginal ==
    /\ cpc = "load_original"
    /\ IF Loadable(fs, argv[1])
       THEN /\ vital_data' = json_load(fs, argv[1])
            /\ cpc' = "ensure_settings"
            /\ UNCHANGED exitCode
       ELSE /\ PatchExit(1)
            /\ UNCHANGED vital_data
    /\ UNCHANGED <<argv, fs, fs0, patch_dict, stdout, outOpened>>
    /\ UNCHANGED syncVars

\* lines 9-10: on a document that is no dict the test or the assignment raises TypeError
EnsureSettings ==
    /\ cpc = "ensure_settings"
    /\ IF IsDict(vital_data)
       THEN /\ vital_data' = ensure_settings(vital_data)
            /\ cpc' = "apply"
            /\ UNCHANGED exitCode
       ELSE /\ PatchExit(1)
            /\ UNCHANGED vital_data
    /\ UNCHANGED <<argv, fs, fs0, patch_dict, stdout, outOpened>>
    /\ UNCHANGED syncVars

\* lines 12-13: a patch that is no dict has no items() (AttributeError)
ApplyPatch ==
    /\ cpc = "apply"
    /\ IF IsDict(patch_dict)
       THEN /\ vital_data' = apply_items(vital_data, patch_dict, DOMAIN patch_dict.map)
            /\ cpc' = "open_output"
            /\ UNCHANGED exitCode
       ELSE /\ PatchExit(1)
            /\ UNCHANGED vital_data
    /\ UNCHANGED <<argv, fs, fs0, patch_dict, stdout, outOpened>>
    /\ UNCHANGED syncVars

\* line 14: open(output_path, 'w') creates or truncates the file
OpenOutput ==
    /\ cpc = "open_output"
    /\ fs' = [fs EXCEPT ![argv[3]] = Garbage]
    /\ outOpened' = TRUE
    /\ cpc' = "dump"
    /\ UNCHANGED <<argv, fs0, patch_dict, vital_data, exitCode, stdout>>
    /\ UNCHANGED syncVars

\* line 15
Dump ==
    /\ cpc = "dump"
    /\ fs' = [fs EXCEPT ![argv[3]] = json_dump(vital_data)]
    /\ cpc' = "print"
    /\ UNCHANGED <<argv, fs0, patch_dict, vital_data, exitCode, stdout, outOpened>>
    /\ UNCHANGED syncVars

\* line 33 and the end of the script
PrintSaved ==
    /\ cpc = "print"
    /\ stdout' = Append(stdout, <<"Patched vital file saved to", argv[3]>>)
    /\ PatchExit(0)
    /\ UNCHANGED <<argv, fs, fs0, patch_dict, vital_data, outOpened>>
    /\ UNCHANGED syncVars

PatchNext ==
    \/ CheckArgs
    \/ CheckOriginal
    \/ CheckPatch
    \/ LoadPatch
    \/ LoadOriginal
    \/ EnsureSettings
    \/ ApplyPatch
    \/ OpenOutput
    \/ Dump
    \/ PrintSaved

\* the script is started with some arguments on some files
PatchInitial ==
    /\ argv \in ArgvUniverse
    /\ fs \in [PatchPaths -> ContentUniverse]
    /\ fs0 = fs
    /\ cpc = "argc"
    /\ patch_dict = Num(0)
    /\ vital_data = Num(0)
    /\ exitCode = -1
    /\ stdout = <<>>
    /\ outOpened = FALSE

---------------------------------------------------------------------------
(* main() of upload.py: one process per run *)

Line(kind, rel, n, id) == [kind |-> kind, rel |-> rel, n |-> n, id |-> id]

cur(r) == vital_files[r][idx[r]]

Running(r) == pc[r] \in {"loop", "upload_preset", "upload_preview", "upsert"}

\* lines 102-110: the directory checks, the enumeration, the counter
Start(r) ==
    /\ pc[r] = "idle"
    /\ \A q \in Runs : q < r => pc[q] # "idle"   \* runs are numbered as they start
    /\ overlap \/ \A q \in Runs : ~Running(q)
    /\ IF presetsDirExists /\ previewsDirExists
       THEN /\ vital_files' = [vital_files EXCEPT ![r] = sorted(presetTree)]
            /\ out' = [out EXCEPT ![r] =
                          Append(@, Line("FOUND", None, Cardinality(presetTree), ""))]
            /\ pc' = [pc EXCEPT ![r] = "loop"]
       ELSE /\ pc' = [pc EXCEPT ![r] = "crashed"]   \* RuntimeError
            /\ UNCHANGED <<vital_files, out>>
    /\ overlapped' = (overlapped \/ \E q \in Runs : Running(q))
    /\ UNCHANGED <<disk,
                   presetsStore, previewsStore, catalog, idx, missing_wavs, wav_path,
                   raisedAt>>
    /\ UNCHANGED patchVars

\* lines 116-119 with a break in place of the continue
SkipEndsLoop(r) ==
    /\ pc[r] = "loop"
    /\ idx[r] <= Len(vital_files[r])
    /\ find_matching_wav(cur(r)) = None
    /\ missing_wavs' = [missing_wavs EXCEPT ![r] = @ + 1]
    /\ out' = [out EXCEPT ![r] = Append(@, Line("WARN", cur(r), 0, ""))]
    /\ idx' = [idx EXCEPT ![r] = Len(vital_files[r]) + 1]
    /\ UNCHANGED <<disk, overlapped,
                   presetsStore, previewsStore, catalog, pc, vital_files, wav_path,
                   raisedAt>>
    /\ UNCHANGED patchVars

\* lines 112-119: no preview matches the asset
SkipUnmatched(r) ==
    /\ pc[r] = "loop"
    /\ idx[r] <= Len(vital_files[r])
    /\ find_matching_wav(cur(r)) = None
    /\ missing_wavs' = [missing_wavs EXCEPT ![r] = @ + 1]
    /\ out' = [out EXCEPT ![r] = Append(@, Line("WARN", cur(r), 0, ""))]
    /\ idx' = [idx EXCEPT ![r] = @ + 1]
    /\ UNCHANGED <<disk, overlapped,
                   presetsStore, previewsStore, catalog, pc, vital_files, wav_path,
                   raisedAt>>
    /\ UNCHANGED patchVars

\* lines 112-122: a preview matches the asset
Matched(r) ==
    /\ pc[r] = "loop"
    /\ idx[r] <= Len(vital_files[r])
    /\ find_matching_wav(cur(r)) # None
    /\ wav_path' = [wav_path EXCEPT ![r] = find_matching_wav(cur(r))]
    /\ pc' = [pc EXCEPT ![r] = "upload_preset"]
    /\ UNCHANGED <<disk, overlapped,
                   presetsStore, previewsStore, catalog, vital_files, idx, missing_wavs,
                   out, raisedAt>>
    /\ UNCHANGED patchVars

\* lines 132-137 moved before line 125: the row is upserted first, the preset is not yet
\* uploaded
UpsertBeforeUpload(r) ==
    /\ pc[r] = "upload_preset"
    /\ LET preset_id == stable_id_for(cur(r))
       IN catalog' = upsert_preset_row(catalog, preset_id, stem(cur(r)[Len(cur(r))]),
                                       preset_key_of(preset_id), preview_key_of(preset_id))
    /\ pc' = [pc EXCEPT ![r] = "upload_preview"]
    /\ UNCHANGED <<disk, overlapped,
                   presetsStore, previewsStore, vital_files, idx, missing_wavs, wav_path,
                   out, raisedAt>>
    /\ UNCHANGED patchVars

\* line 125
UploadPreset(r) ==
    /\ pc[r] = "upload_preset"
    /\ presetsStore' = upload_file(presetsStore, preset_key_of(stable_id_for(cur(r))),
                                   "presets", cur(r), "application/octet-stream")
    /\ pc' = [pc EXCEPT ![r] = "upload_preview"]
    /\ UNCHANGED <<disk, overlapped,
                   previewsStore, catalog, vital_files, idx, missing_wavs, wav_path,
                   out, raisedAt>>
    /\ UNCHANGED patchVars

\* line 126
UploadPreview(r) ==
    /\ pc[r] = "upload_preview"
    /\ previewsStore' = upload_file(previewsStore, preview_key_of(stable_id_for(cur(r))),
                                    "previews", wav_path[r], "audio/wav")
    /\ pc' = [pc EXCEPT ![r] = "upsert"]
    /\ UNCHANGED <<disk, overlapped,
                   presetsStore, catalog, vital_files, idx, missing_wavs, wav_path,
                   out, raisedAt>>
    /\ UNCHANGED patchVars

\* lines 129-139
UpsertRow(r) ==
    /\ pc[r] = "upsert"
    /\ LET preset_id == stable_id_for(cur(r))
           title == stem(cur(r)[Len(cur(r))])
       IN /\ catalog' = upsert_preset_row(catalog, preset_id, title,
                                          preset_key_of(preset_id),
                                          preview_key_of(preset_id))
          /\ out' = [out EXCEPT ![r] = Append(@, Line("OK", cur(r), 0, preset_id))]
    /\ idx' = [idx EXCEPT ![r] = @ + 1]
    /\ pc' = [pc EXCEPT ![r] = "loop"]
    /\ UNCHANGED <<disk, overlapped,
                   presetsStore, previewsStore, vital_files, missing_wavs, wav_path,
                   raisedAt>>
    /\ UNCHANGED patchVars

\* a remote call's exception caught inside the loop: the asset is given up, the loop goes on
RemoteFailureCaught(r) ==
    /\ pc[r] \in {"upload_preset", "upload_preview", "upsert"}
    /\ raisedAt' = [raisedAt EXCEPT ![r] = idx[r]]
    /\ idx' = [idx EXCEPT ![r] = @ + 1]
    /\ pc' = [pc EXCEPT ![r] = "loop"]
    /\ UNCHANGED <<disk, overlapped,
                   presetsStore, previewsStore, catalog, vital_files, missing_wavs,
                   wav_path, out>>
    /\ UNCHANGED patchVars

\* lines 125, 126, 132 raise (storage or table error): nothing in main() catches it,
\* the exception leaves the loop and main()
RemoteFailure(r) ==
    /\ pc[r] \in {"upload_preset", "upload_preview", "upsert"}
    /\ raisedAt' = [raisedAt EXCEPT ![r] = idx[r]]
    /\ pc' = [pc EXCEPT ![r] = "crashed"]
    /\ UNCHANGED <<disk, overlapped,
                   presetsStore, previewsStore, catalog, vital_files, idx, missing_wavs,
                   wav_path, out>>
    /\ UNCHANGED patchVars

\* lines 141-142: the loop is over
Finish(r) ==
    /\ pc[r] = "loop"
    /\ idx[r] > Len(vital_files[r])
    /\ out' = [out EXCEPT ![r] =
                  IF missing_wavs[r] # 0
                  THEN Append(@, Line("DONE_WARN", None, missing_wavs[r], ""))
                  ELSE @]
    /\ pc' = [pc EXCEPT ![r] = "done"]
    /\ UNCHANGED <<disk, overlapped,
                   presetsStore, previewsStore, catalog, vital_files, idx, missing_wavs,
                   wav_path, raisedAt>>
    /\ UNCHANGED patchVars

\* the process is interrupted (KeyboardInterrupt, kill) anywhere in lines 107-139: main()
\* catches nothing, the run stops where it stands and the traceback names the place
Cancel(r) ==
    /\ Running(r)
    /\ out' = [out EXCEPT ![r] =
                  Append(@, Line("INTERRUPTED",
                                 IF idx[r] <= Len(vital_files[r]) THEN cur(r) ELSE None,
                                 idx[r], pc[r]))]
    /\ pc' = [pc EXCEPT ![r] = "cancelled"]
    /\ UNCHANGED <<disk, overlapped,
                   presetsStore, previewsStore, catalog, vital_files, idx, missing_wavs,
                   wav_path, raisedAt>>
    /\ UNCHANGED patchVars

SyncNext ==
    \E r \in Runs :
        \/ Start(r)
        \/ SkipUnmatched(r)
        \/ Matched(r)
        \/ UploadPreset(r)
        \/ UploadPreview(r)
        \/ UpsertRow(r)
        \/ RemoteFailure(r)
        \/ Finish(r)

Bounded(U, n) == {S \in SUBSET U : Cardinality(S) <= n}

\* the remote stores are empty and no run has started
SyncInitial ==
    /\ overlapped = FALSE
    /\ presetsStore = EmptyBag
    /\ previewsStore = EmptyBag
    /\ catalog = EmptyBag
    /\ pc = [r \in Runs |-> "idle"]
    /\ vital_files = [r \in Runs |-> <<>>]
    /\ idx = [r \in Runs |-> 1]
    /\ missing_wavs = [r \in Runs |-> 0]
    /\ wav_path = [r \in Runs |-> None]
    /\ out = [r \in Runs |-> <<>>]
    /\ raisedAt = [r \in Runs |-> 0]

\* the trees on disk: a missing directory holds no file
Trees ==
    /\ presetsDirExists \in BOOLEAN
    /\ previewsDirExists \in BOOLEAN
    /\ presetTree \in (IF presetsDirExists THEN Bounded(PresetUniverse, MaxPresetFiles) ELSE {{}})
    /\ previewTree \in (IF previewsDirExists THEN Bounded(PreviewUniverse, MaxPreviewFiles) ELSE {{}})

\* the patch CLI is not run
PatchIdle ==
    /\ argv = <<>>
    /\ fs = <<>>
    /\ fs0 = <<>>
    /\ cpc = "off"
    /\ patch_dict = Num(0)
    /\ vital_data = Num(0)
    /\ exitCode = -1
    /\ stdout = <<>>
    /\ outOpened = FALSE

Init == Trees /\ overlap = FALSE /\ SyncInitial /\ PatchIdle

InitConc == Trees /\ overlap = TRUE /\ SyncInitial /\ PatchIdle

Next == SyncNext

\* runs of main() one after the other
Spec == Init /\ [][Next]_vars

\* runs of main() that may overlap
SpecConc == InitConc /\ [][Next]_vars

CancelNext ==
    \/ SyncNext
    \/ \E r \in Runs : Cancel(r)

\* runs of main() one after the other, any of which may be interrupted
SpecCancel == Init /\ [][CancelNext]_vars

\* no Sync run is made
SyncIdle ==
    /\ presetsDirExists = FALSE
    /\ previewsDirExists = FALSE
    /\ presetTree = {}
    /\ previewTree = {}
    /\ overlap = FALSE
    /\ SyncInitial

InitPatch == PatchInitial /\ SyncIdle

\* one run of the patch CLI
SpecPatch == InitPatch /\ [][PatchNext]_vars

---------------------------------------------------------------------------
(* What one uninterrupted run of main() leaves in empty stores *)

Stores == [presets |-> presetsStore, previews |-> previewsStore, catalog |-> catalog]

\* lines 112-137 for the assets files[k..], starting from the stores st
RECURSIVE RunFrom(_, _, _)
RunFrom(files, k, st) ==
    IF k > Len(files) THEN st
    ELSE LET rel == files[k]
             wav == find_matching_wav(rel)
             preset_id == stable_id_for(rel)
         IN IF wav = None THEN RunFrom(files, k + 1, st)
            ELSE RunFrom(files, k + 1,
                   [presets |-> upload_file(st.presets, preset_key_of(preset_id),
                                            "presets", rel, "application/octet-stream"),
                    previews |-> upload_file(st.previews, preview_key_of(preset_id),
                                             "previews", wav, "audio/wav"),
                    catalog |-> upsert_preset_row(st.catalog, preset_id,
                                                  stem(rel[Len(rel)]),
                                                  preset_key_of(preset_id),
                                                  preview_key_of(preset_id))])

SingleRunResult ==
    RunFrom(sorted(presetTree), 1,
            [presets |-> EmptyBag, previews |-> EmptyBag, catalog |-> EmptyBag])

---------------------------------------------------------------------------
(* Claims about Sync *)

Unmatched(p) == find_matching_wav(p) = None

HasKey(store, key) == \E o \in DOMAIN store : o.key = key

HasRow(id) == \E x \in DOMAIN catalog : x.id = id

Printed(r, kind, rel) == \E n \in 1..Len(out[r]) : out[r][n].kind = kind /\ out[r][n].rel = rel

DoneRuns == {r \in Runs : pc[r] = "done"}

\* C1: Sync is idempotent.  Once a run of main() has completed on the trees, no step of a
\* later run on the same trees changes the catalog or either bucket: the state after the
\* second run is the state after the first (same rows, same keys, same bytes).
C1_SyncIdempotent ==
    [][(~overlap /\ DoneRuns # {}) => Stores' = Stores]_vars

\* two runs have completed one after the other and rows were published
C1_Witness ==
    /\ ~overlap
    /\ Cardinality(DoneRuns) >= 2
    /\ Cardinality(DOMAIN catalog) >= 2

\* C2: an asset the matcher returns None for is never uploaded nor upserted, is counted in
\* missing_wavs and warned about, and the run goes on to the assets after it.
C2_UnmatchedSkipped ==
    \A r \in Runs :
        /\ missing_wavs[r] =
               Cardinality({k \in 1..Len(vital_files[r]) :
                               k < idx[r] /\ Unmatched(vital_files[r][k])})
        /\ \A k \in 1..Len(vital_files[r]) :
               LET p == vital_files[r][k] IN
               Unmatched(p) =>
                   /\ ~HasKey(presetsStore, preset_key_of(stable_id_for(p)))
                   /\ ~HasKey(previewsStore, preview_key_of(stable_id_for(p)))
                   /\ ~HasRow(stable_id_for(p))
                   /\ ~Printed(r, "OK", p)
                   /\ (k < idx[r] => Printed(r, "WARN", p))
                   /\ (pc[r] = "done" =>
                          \A j \in (k + 1)..Len(vital_files[r]) :
                              ~Unmatched(vital_files[r][j]) =>
                                  /\ Printed(r, "OK", vital_files[r][j])
                                  /\ HasRow(stable_id_for(vital_files[r][j])))

\* a completed run skipped an unmatched asset and then published a later one
C2_Witness ==
    \E r \in Runs :
        /\ pc[r] = "done"
        /\ \E k \in 1..Len(vital_files[r]) : \E j \in (k + 1)..Len(vital_files[r]) :
               /\ Unmatched(vital_files[r][k])
               /\ ~Unmatched(vital_files[r][j])
               /\ HasRow(stable_id_for(vital_files[r][j]))
               /\ missing_wavs[r] >= 1

C4_Candidate1(S) == with_suffix(S, ".wav")
C4_Candidate2(S) == with_suffix(SelectSeq(S, LAMBDA x : lower(x) # "presets"), ".wav")
C4_Candidate3(S) == with_suffix(SubSeq(S, 2, Len(S)), ".wav")
C4_Candidate4(S) ==
    with_suffix(SelectSeq(SubSeq(S, 2, Len(S)), LAMBDA x : lower(x) # "presets"), ".wav")
C4_Alias(S) == lower(S[1]) \in {"jek's vital presets", "jeks vital presets"}
C4_Expected(S) ==
    IF C4_Candidate1(S) \in previewTree THEN C4_Candidate1(S)
    ELSE IF C4_Candidate2(S) \in previewTree THEN C4_Candidate2(S)
    ELSE IF C4_Alias(S) /\ C4_Candidate3(S) \in previewTree THEN C4_Candidate3(S)
    ELSE IF C4_Alias(S) /\ C4_Candidate4(S) \in previewTree THEN C4_Candidate4(S)
    ELSE None

\* C4: the matcher probes, in this order, (1) the segments S, (2) S without its "presets"
\* segments and, only when the lowercase first segment is a root alias, (3) S without its
\* first segment and (4) S without its first segment and without "presets" segments, each
\* with the extension replaced by .wav; the first candidate that exists is the result,
\* None when none exists.
C4_MatcherOrder ==
    /\ \A p \in presetTree : find_matching_wav(p) = C4_Expected(p)
    /\ \A r \in Runs :
           pc[r] \in {"upload_preset", "upload_preview", "upsert"} =>
               /\ wav_path[r] = C4_Expected(cur(r))
               /\ wav_path[r] # None
    /\ \A r \in Runs : \A p \in presetTree :
           Printed(r, "WARN", p) =>
               /\ C4_Candidate1(p) \notin previewTree
               /\ C4_Candidate2(p) \notin previewTree
               /\ C4_Alias(p) => /\ C4_Candidate3(p) \notin previewTree
                                 /\ C4_Candidate4(p) \notin previewTree
    /\ (/\ <<"Jek's Vital Presets", "PackA", "Presets", "Lead.vital">> \in presetTree
        /\ previewTree = {<<"PackA", "Lead.wav">>})
           => find_matching_wav(<<"Jek's Vital Presets", "PackA", "Presets", "Lead.vital">>)
                  = <<"PackA", "Lead.wav">>
    /\ (/\ <<"PackB", "Presets", "Bass.vital">> \in presetTree
        /\ previewTree = {<<"PackB", "Bass.wav">>})
           => find_matching_wav(<<"PackB", "Presets", "Bass.vital">>) = <<"PackB", "Bass.wav">>

\* a run resolved 'Jek's Vital Presets/PackA/Presets/Lead.vital' to 'PackA/Lead.wav', the
\* only preview there is (candidate 4)
C4_Witness ==
    \E r \in Runs :
        /\ pc[r] = "upload_preset"
        /\ cur(r) = <<"Jek's Vital Presets", "PackA", "Presets", "Lead.vital">>
        /\ previewTree = {<<"PackA", "Lead.wav">>}
        /\ wav_path[r] = <<"PackA", "Lead.wav">>

\* C9: every catalog row has the id of a preset path some run matched and published, its
\* object keys are that id with ".vital" and ".wav", no two rows share an id, and distinct
\* preset paths have distinct ids and so distinct rows.
C9_CatalogIdentity ==
    /\ \A row \in DOMAIN catalog :
           /\ catalog[row] = 1
           /\ row.preset_object_key = row.id \o ".vital"
           /\ row.preview_object_key = row.id \o ".wav"
           /\ \E p \in presetTree :
                  /\ row.id = stable_id_for(p)
                  /\ ~Unmatched(p)
                  /\ \E r \in Runs : Printed(r, "OK", p)
                  /\ \A q \in PresetUniverse : stable_id_for(q) = row.id => q = p
    /\ \A x \in DOMAIN catalog : \A y \in DOMAIN catalog : x.id = y.id => x = y
    /\ \A p \in PresetUniverse : \A q \in PresetUniverse :
           p # q => stable_id_for(p) # stable_id_for(q)
    /\ DoneRuns # {} =>
           Cardinality(DOMAIN catalog) = Cardinality({p \in presetTree : ~Unmatched(p)})

\* two runs have completed and the catalog holds the rows of two presets with the same file
\* name (and so the same title) under different paths
C9_Witness ==
    /\ Cardinality(DoneRuns) >= 2
    /\ \E x \in DOMAIN catalog : \E y \in DOMAIN catalog : x.id # y.id /\ x.title = y.title

\* no key or id is held twice
NoDuplicates ==
    /\ \A o \in DOMAIN presetsStore : presetsStore[o] = 1
    /\ \A o \in DOMAIN previewsStore : previewsStore[o] = 1
    /\ \A x \in DOMAIN catalog : catalog[x] = 1
    /\ \A o1 \in DOMAIN presetsStore : \A o2 \in DOMAIN presetsStore : o1.key = o2.key => o1 = o2
    /\ \A o1 \in DOMAIN previewsStore : \A o2 \in DOMAIN previewsStore : o1.key = o2.key => o1 = o2
    /\ \A x \in DOMAIN catalog : \A y \in DOMAIN catalog : x.id = y.id => x = y

\* C10: overlapping runs converge.  However the steps of the runs interleave, no row or
\* object is ever duplicated, every row and object is one a single run writes, and once all
\* runs have finished the catalog and both buckets are exactly what a single run leaves.
C10_OverlapConverges ==
    LET matched == {p \in presetTree : ~Unmatched(p)} IN
    /\ NoDuplicates
    /\ DOMAIN presetsStore \subseteq
           {[key |-> stable_id_for(p) \o ".vital",
             data |-> read_bytes("presets", p),
             content_type |-> "application/octet-stream"] : p \in matched}
    /\ DOMAIN previewsStore \subseteq
           {[key |-> stable_id_for(p) \o ".wav",
             data |-> read_bytes("previews", find_matching_wav(p)),
             content_type |-> "audio/wav"] : p \in matched}
    /\ DOMAIN catalog \subseteq
           {[id |-> stable_id_for(p),
             title |-> stem(p[Len(p)]),
             visibility |-> "public",
             preset_object_key |-> stable_id_for(p) \o ".vital",
             preview_object_key |-> stable_id_for(p) \o ".wav",
             source |-> "seed"] : p \in matched}
    /\ (\A r \in Runs : pc[r] = "done") => Stores = SingleRunResult

\* all runs have finished, one of them started while another was running, and rows were
\* published
C10_Witness ==
    /\ overlapped
    /\ \A r \in Runs : pc[r] = "done"
    /\ Cardinality(DOMAIN catalog) >= 2

---------------------------------------------------------------------------
(* Claims about the patch engine *)

\* the base document and the patch as the script found them
BaseDoc == fs0[argv[1]].val
PatchDoc == fs0[argv[2]].val

\* the document at the output path
Output == fs[argv[3]].val

Succeeded == cpc = "exit" /\ exitCode = 0

\* the patched document is in memory or written
Built == cpc \in {"open_output", "dump", "print"} \/ Succeeded

\* C5: patching changes no top-level field other than "settings": every other field of
\* the output is a field of the base with the same value, and none is added or removed.
C5_PatchFrame ==
    /\ Built =>
           /\ IsDict(vital_data)
           /\ DOMAIN vital_data.map \ {"settings"} = DOMAIN BaseDoc.map \ {"settings"}
           /\ \A k \in DOMAIN BaseDoc.map \ {"settings"} : vital_data.map[k] = BaseDoc.map[k]
    /\ Succeeded =>
           /\ fs[argv[3]].kind = "json"
           /\ IsDict(Output)
           /\ DOMAIN Output.map \ {"settings"} = DOMAIN BaseDoc.map \ {"settings"}
           /\ \A k \in DOMAIN BaseDoc.map \ {"settings"} : Output.map[k] = BaseDoc.map[k]

\* the script succeeded on a base with a "meta" field and a patch with an item
C5_Witness ==
    /\ Succeeded
    /\ "meta" \in DOMAIN BaseDoc.map
    /\ "settings" \in DOMAIN BaseDoc.map
    /\ DOMAIN PatchDoc.map # {}
    /\ Output # BaseDoc

\* the settings the patch starts from: the base's if they are a mapping, else none
C6_B ==
    IF "settings" \in DOMAIN BaseDoc.map /\ BaseDoc.map["settings"].kind = "map"
    THEN BaseDoc.map["settings"].map
    ELSE NoMap

\* C6: the output's "settings" is B overridden by the patch P: the keys are those of B and
\* of P, a key of P has P's value, a key of B alone keeps B's value.
C6_PatchResult ==
    Succeeded =>
        /\ "settings" \in DOMAIN Output.map
        /\ Output.map["settings"].kind = "map"
        /\ DOMAIN Output.map["settings"].map = DOMAIN C6_B \cup DOMAIN PatchDoc.map
        /\ \A k \in DOMAIN PatchDoc.map : Output.map["settings"].map[k] = PatchDoc.map[k]
        /\ \A k \in DOMAIN C6_B \ DOMAIN PatchDoc.map : Output.map["settings"].map[k] = C6_B[k]
        /\ (/\ "settings" \notin DOMAIN BaseDoc.map
            /\ PatchDoc = Obj("k" :> Num(1)))
               => Output.map["settings"] = Obj("k" :> Num(1))
        /\ (/\ "settings" \in DOMAIN BaseDoc.map
            /\ BaseDoc.map["settings"] = Obj(("a" :> Num(1)) @@ ("b" :> Num(2)))
            /\ PatchDoc = Obj(("b" :> Num(5)) @@ ("c" :> Num(9))))
               => Output.map["settings"]
                      = Obj(("a" :> Num(1)) @@ ("b" :> Num(5)) @@ ("c" :> Num(9)))

\* {"a":1,"b":2} was patched with {"b":5,"c":9}
C6_Witness ==
    /\ Succeeded
    /\ "settings" \in DOMAIN BaseDoc.map
    /\ BaseDoc.map["settings"] = Obj(("a" :> Num(1)) @@ ("b" :> Num(2)))
    /\ PatchDoc = Obj(("b" :> Num(5)) @@ ("c" :> Num(9)))

\* an input is missing or is not JSON
C7_BadInput ==
    /\ Len(argv) = 3
    /\ \/ fs0[argv[1]].kind # "json"
       \/ fs0[argv[2]].kind # "json"

\* C7: all or nothing.  With a missing or unparseable base or patch the script fails and
\* the files are as they were, the output path included; the output is opened for writing
\* only once both inputs are loaded and the patched document is built.
C7_AllOrNothing ==
    /\ (cpc = "exit" /\ C7_BadInput) => (exitCode = 1 /\ fs = fs0 /\ ~outOpened)
    /\ (cpc = "exit" /\ exitCode # 0) => (fs = fs0 /\ ~outOpened)
    /\ C7_BadInput => (fs = fs0 /\ ~outOpened)
    /\ (outOpened \/ fs # fs0) =>
           /\ outOpened
           /\ cpc \in {"dump", "print", "exit"}
           /\ fs0[argv[1]].kind = "json"
           /\ fs0[argv[2]].kind = "json"
           /\ patch_dict = PatchDoc
           /\ IsDict(vital_data)
           /\ vital_data.map["settings"].map
                  = [k \in DOMAIN C6_B \cup DOMAIN PatchDoc.map |->
                        IF k \in DOMAIN PatchDoc.map THEN PatchDoc.map[k] ELSE C6_B[k]]
           /\ \A p \in PatchPaths \ {argv[3]} : fs[p] = fs0[p]

\* the script failed on an unparseable base while a document lay at the output path
C7_Witness ==
    /\ cpc = "exit"
    /\ Len(argv) = 3
    /\ fs0[argv[1]].kind = "garbage"
    /\ fs0[argv[2]].kind = "json"
    /\ fs0[argv[3]].kind = "json"
    /\ argv[3] # argv[1]
    /\ fs[argv[3]] = fs0[argv[3]]

\* C8: exit status 1 and no output file when the argument count is not three or the
\* original or the patch file does not exist; status 0 only once the output has been
\* written, followed by a line naming the output path.
C8_ExitCodes ==
    /\ (cpc = "exit" /\ Len(argv) # 3) => (exitCode = 1 /\ fs = fs0 /\ ~outOpened)
    /\ (cpc = "exit" /\ Len(argv) = 3 /\ (~path_exists(fs0, argv[1]) \/ ~path_exists(fs0, argv[2])))
           => (exitCode = 1 /\ fs = fs0 /\ ~outOpened)
    /\ exitCode \in {-1, 0, 1}
    /\ (exitCode # -1) <=> (cpc = "exit")
    /\ exitCode = 0 =>
           /\ outOpened
           /\ fs[argv[3]] = json_dump(vital_data)
           /\ Len(stdout) > 0
           /\ stdout[Len(stdout)] = <<"Patched vital file saved to", argv[3]>>

\* the script was given an original path that does not exist, and no file is at the output
C8_Witness ==
    /\ cpc = "exit"
    /\ Len(argv) = 3
    /\ ~path_exists(fs0, argv[1])
    /\ path_exists(fs0, argv[2])
    /\ exitCode = 1
    /\ ~path_exists(fs, argv[3])

---------------------------------------------------------------------------
(* Claims about interrupted runs *)

Interrupted(r, place) ==
    \E n \in 1..Len(out[r]) : out[r][n].kind = "INTERRUPTED" /\ out[r][n].id = place

\* C11: cancellation is recoverable by running again.  Whatever a run interrupted between
\* or inside an asset's upload, upload, upsert steps has left behind, a later run that
\* completes on the same trees ends with the catalog and both buckets exactly as one
\* uninterrupted run leaves them.
C11_RerunRecovers ==
    \A r \in Runs : \A q \in Runs :
        (pc[r] = "cancelled" /\ q > r /\ pc[q] = "done") => Stores = SingleRunResult

\* a run was interrupted between an asset's preset upload and its upsert, and the next run
\* has completed and published rows
C11_Witness ==
    \E r \in Runs : \E q \in Runs :
        /\ pc[r] = "cancelled"
        /\ Interrupted(r, "upload_preview") \/ Interrupted(r, "upsert")
        /\ q > r
        /\ pc[q] = "done"
        /\ Cardinality(DOMAIN catalog) >= 2

\* C12: referential integrity.  In every state, during a run, after it, after an
\* interruption or a failed remote call, each catalog row names a preset object key and a
\* preview object key that are in their buckets.
C12_RowsReferenceObjects ==
    \A x \in DOMAIN catalog :
        /\ \E o \in DOMAIN presetsStore : o.key = x.preset_object_key
        /\ \E o \in DOMAIN previewsStore : o.key = x.preview_object_key

\* a run stopped (interrupted or failed) inside an asset, after an earlier asset's row
\* was written: the preset of the asset it stopped in is uploaded and has no row
C12_Witness ==
    /\ \E r \in Runs : pc[r] \in {"cancelled", "crashed"}
    /\ catalog # EmptyBag
    /\ \E o \in DOMAIN presetsStore :
           \A x \in DOMAIN catalog : x.preset_object_key # o.key

====
